---- MODULE Spec2Model ----
(***************************************************************************)
(* Model of stl/ast2latex.py: the renderer of an STL abstract syntax tree  *)
(* into a LaTeX/TikZ document.                                             *)
(*                                                                         *)
(* A Python str is modelled as a sequence of tokens.  A token is either a  *)
(* single character that the string operations of the code look at (line   *)
(* feed, space, tab, backspace) or a chunk of other characters that those   *)
(* operations never split.  A template is a token sequence in which a      *)
(* replacement field such as {tree} is a token of its own; the literal     *)
(* chunks are written as str.format emits them ("{{" already reduced to    *)
(* "{").                                                                   *)
(***************************************************************************)
EXTENDS Integers, Sequences, FiniteSets, TLC

VARIABLES
    hashseed,             \* iteration order of a set of str in this interpreter
    node_styles,          \* module global node_styles
    node_label,           \* module global node_label
    default_node_styles,  \* module global default_node_styles
    ast,                  \* the caller's tree object
    call,                 \* the last call made on ast: function and arguments
    result,               \* what that call returned or raised
    this_run              \* whether that call was made in the current run

vars ==
    <<hashseed, node_styles, node_label, default_node_styles, ast, call, result,
      this_run>>

----------------------------------------------------------------------------
(* Bounds of the model *)

\* largest number of nodes of a tree handed to tikz_tree
MaxNodes == 4
\* largest number of nodes of a tree handed to ast2latex
MaxDocNodes == 3
\* largest length of the libraries argument
MaxLibs == 2
\* largest depth argument of a direct tikz_tree call
MaxDepth == 2

----------------------------------------------------------------------------
(* Characters the string operations distinguish *)

LF == "\n"
SP == " "
\* '\t' (U+0009)
TAB == "\t"
\* '\b' (U+0008)
BS == "<U+0008>"

\* str.isspace() for a token; only the single-character tokens can be space
IsSpace(tok) == tok \in {LF, SP, TAB}

\* line boundary of str.splitlines among the characters modelled
IsLineBreak(tok) == tok = LF

----------------------------------------------------------------------------
(* Python str operations on token sequences *)

RECURSIVE Concat(_)
\* ''.join(parts)
Concat(parts) ==
    IF parts = <<>> THEN <<>> ELSE Head(parts) \o Concat(Tail(parts))

RECURSIVE Join(_, _)
\* sep.join(parts)
Join(sep, parts) ==
    IF parts = <<>> THEN <<>>
    ELSE IF Len(parts) = 1 THEN parts[1]
    ELSE parts[1] \o sep \o Join(sep, Tail(parts))

\* s.lstrip()
LStrip(s) ==
    LET kept == {i \in 1..Len(s) : ~IsSpace(s[i])}
    IN IF kept = {} THEN <<>>
       ELSE SubSeq(s, CHOOSE i \in kept : \A j \in kept : i <= j, Len(s))

\* s.splitlines(True): the lines of s, each with its line break; a line
\* break that ends s starts no further line
SplitLines(s) ==
    LET breaks == {i \in 1..Len(s) : IsLineBreak(s[i])}
        ends == breaks \cup (IF s = <<>> THEN {} ELSE {Len(s)})
        EndOf(k) == CHOOSE e \in ends : Cardinality({x \in ends : x <= e}) = k
    IN [k \in 1..Cardinality(ends) |->
          SubSeq(s, IF k = 1 THEN 1 ELSE EndOf(k - 1) + 1, EndOf(k))]

\* ' ' * n
Spaces(n) == [i \in 1..n |-> SP]

\* template.format(**env): every replacement field is replaced by its value,
\* the literal chunks are copied
Format(template, env) ==
    Concat([i \in 1..Len(template) |->
              IF template[i] \in DOMAIN env THEN env[template[i]]
              ELSE <<template[i]>>])

\* str(n) of an int, as format() interpolates it
Str(n) == <<ToString(n)>>

----------------------------------------------------------------------------
(* Templates *)

template_latex_standalone ==
    << LF, "\\documentclass{standalone}",
       LF, "\\usepackage{amsmath}",
       LF, "\\usepackage{amssymb}",
       LF, "\\usepackage{amsfonts}",
       LF, "\\usepackage{tikz}",
       LF, "{tikz_libraries}",
       LF,
       LF, "{tikz_style}",
       LF,
       LF, "\\begin{document}",
       LF, "{figure}",
       LF, "\\end{document}",
       LF >>

template_use_tikz_library == << "\\usetikzlibrary{", "{lib}", "}" >>

template_figure ==
    << LF, "\\begin{tikzpicture}[->,>=stealth',level/.style={sibling distance = 5cm/#1, level distance = 1.5cm}]",
       LF, "{tree}",
       LF, "\\end{tikzpicture}",
       LF >>

template_tree == << "\\", "{tree}", LF, ";", LF >>

template_node == << "node [", "{style}", "] {", "{text}", "} ", "{children}" >>

template_child == << "child {", LF, "{node}", LF, "}" >>

template_style_block ==
    << "\\tikzset{",
       LF, "    treenode/.style = {align=center, text centered},",
       LF, "{node_styles}",
       LF, "}" >>

\* the values of default_node_styles are never passed through format as
\* templates, so their doubled braces reach the output as written
init_default_node_styles ==
    [ leaf |-> << "    leaf/.style = {{treenode, ellipse, black, draw=black}}," >>,
      intermediate |->
          << "    intermediate/.style = {{treenode, ellipse, black, draw=black}}," >> ]

----------------------------------------------------------------------------
(* Operator kinds and the tables *)

RelOperation == {"LT", "LE", "GT", "GE", "EQ", "NQ"}

\* the kinds with an entry in node_styles and node_label
Registered ==
    {"BOOL", "PRED", "AND", "OR", "IMPLIES", "NOT", "ALWAYS", "EVENT", "UNTIL"}

init_node_styles ==
    [op \in Registered |->
        IF op \in {"BOOL", "PRED"} THEN "leaf" ELSE "intermediate"]

\* The literals of BOOL and of the relation symbols are not raw strings:
\* Python reads \t, \b and \n in them as escape sequences, and keeps \l and
\* \g as a backslash followed by the letter.
init_node_label ==
    [op \in Registered |->
        CASE op = "BOOL" -> [b \in BOOLEAN |->
                               IF b THEN <<"$", TAB, "op$">>
                                    ELSE <<"$", BS, "ot$">>]
          [] op = "PRED" ->
               << <<"$", "{signal}", SP, "{rop}", SP, "{threshold}", "$">>,
                  [r \in RelOperation |->
                     CASE r = "LT" -> <<"<">>
                       [] r = "LE" -> <<"\\leq">>
                       [] r = "GT" -> <<">">>
                       [] r = "GE" -> <<"\\geq">>
                       [] r = "EQ" -> <<"=">>
                       [] r = "NQ" -> <<LF, "eq">>] >>
          [] op = "AND" -> <<"$\\land$">>
          [] op = "OR" -> <<"$\\lor$">>
          [] op = "IMPLIES" -> <<"$\\implies$">>
          [] op = "NOT" -> <<"$\\lnot$">>
          [] op = "ALWAYS" -> <<"$\\square_{[", "{low}", ", ", "{high}", "]}$">>
          [] op = "EVENT" -> <<"$\\lozenge_{[", "{low}", ", ", "{high}", "]}$">>
          [] op = "UNTIL" -> <<"$\\mathcal{U}_{[", "{low}", ", ", "{high}", "]}$">>]

indent_size == 4

----------------------------------------------------------------------------
(* Abstract syntax trees *)

Bool(v) == [op |-> "BOOL", value |-> v]
Predicate(var, rel, thr) ==
    [op |-> "PRED", variable |-> var, relation |-> rel, threshold |-> thr]
And(chs) == [op |-> "AND", children |-> chs]
Or(chs) == [op |-> "OR", children |-> chs]
Implies(l, r) == [op |-> "IMPLIES", left |-> l, right |-> r]
Not(c) == [op |-> "NOT", child |-> c]
Always(lo, hi, c) == [op |-> "ALWAYS", low |-> lo, high |-> hi, child |-> c]
Eventually(lo, hi, c) == [op |-> "EVENT", low |-> lo, high |-> hi, child |-> c]
Until(lo, hi, l, r) ==
    [op |-> "UNTIL", low |-> lo, high |-> hi, left |-> l, right |-> r]
\* the operator the source leaves commented out of both tables
Release(lo, hi, l, r) ==
    [op |-> "RELEASE", low |-> lo, high |-> hi, left |-> l, right |-> r]

\* the leaves used below an operator
KidLeaves == {Predicate("x", "GT", 10), Predicate("y", "NQ", 2)}

Leaves ==
    {Bool(v) : v \in BOOLEAN}
    \cup {Predicate("x", r, 10) : r \in RelOperation}
    \cup KidLeaves

RECURSIVE Trees(_), Forests(_, _)
\* the trees of exactly n nodes over KidLeaves
Trees(n) ==
    IF n = 1 THEN KidLeaves
    ELSE {Not(c) : c \in Trees(n - 1)}
         \cup {Always(0, 2, c) : c \in Trees(n - 1)}
         \cup {Eventually(1, 3, c) : c \in Trees(n - 1)}
         \cup UNION {{Implies(l, r) : l \in Trees(i), r \in Trees(n - 1 - i)}
                        : i \in 1..(n - 2)}
         \cup UNION {{Until(0, 2, l, r) : l \in Trees(i), r \in Trees(n - 1 - i)}
                        : i \in 1..(n - 2)}
         \cup UNION {{Release(0, 2, l, r) : l \in Trees(i), r \in Trees(n - 1 - i)}
                        : i \in 1..(n - 2)}
         \cup UNION {{And(s) : s \in Forests(k, n - 1)} : k \in 2..(n - 1)}
         \cup UNION {{Or(s) : s \in Forests(k, n - 1)} : k \in 2..(n - 1)}

\* the sequences of k trees of m nodes in all
Forests(k, m) ==
    IF k = 1 THEN {<<t>> : t \in Trees(m)}
    ELSE UNION {{<<t>> \o s : t \in Trees(i), s \in Forests(k - 1, m - i)}
                   : i \in 1..(m - k + 1)}

\* larger trees: the formula of the module's own example,
\* "!(x > 10) && F[0, 2] y > 2 && G[1, 3] z <= 8", and trees that hold the
\* unregistered kind below and beside kinds that are registered
Samples ==
    { And(<< Not(Predicate("x", "GT", 10)),
             Eventually(0, 2, Predicate("y", "GT", 2)),
             Always(1, 3, Predicate("z", "LE", 8)) >>),
      And(<< Predicate("x", "GT", 10),
             Release(0, 2, Predicate("x", "GT", 10), Predicate("y", "NQ", 2)) >>),
      Not(Release(0, 2, Predicate("x", "GT", 10), Predicate("y", "NQ", 2))),
      Until(0, 2, Or(<< Bool(TRUE), Predicate("y", "NQ", 2) >>), Bool(FALSE)) }

\* the trees handed to tikz_tree
ASTs == Leaves \cup UNION {Trees(n) : n \in 2..MaxNodes} \cup Samples

RECURSIVE NodeCount(_)
NodeCount(t) ==
    CASE t.op \in {"BOOL", "PRED"} -> 1
      [] t.op \in {"AND", "OR"} ->
           LET RECURSIVE Sum(_)
               Sum(s) == IF s = <<>> THEN 0 ELSE NodeCount(Head(s)) + Sum(Tail(s))
           IN 1 + Sum(t.children)
      [] t.op \in {"NOT", "ALWAYS", "EVENT"} -> 1 + NodeCount(t.child)
      [] OTHER -> 1 + NodeCount(t.left) + NodeCount(t.right)

----------------------------------------------------------------------------
(* Outcomes of a call *)

\* the call returned the str s
Ok(s) == [exc |-> "none", val |-> s]
\* the call raised KeyError(key)
KeyError(key) == [exc |-> "KeyError", val |-> <<key>>]
\* the call raised UnboundLocalError for the local variable name
UnboundLocalError(name) == [exc |-> "UnboundLocalError", val |-> <<name>>]

Returned(r) == r.exc = "none"

\* the first outcome of rs that is an exception, in evaluation order
FirstRaised(rs) ==
    LET bad == {i \in 1..Len(rs) : ~Returned(rs[i])}
    IN rs[CHOOSE i \in bad : \A j \in bad : i <= j]

----------------------------------------------------------------------------
(* tikz_tree *)

\* iteration order of a set of str: the order the interpreter's hash seed
\* gives its elements
SetIter(S) == SelectSeq(hashseed, LAMBDA s : s \in S)

Range(f) == {f[x] : x \in DOMAIN f}

\* the kinds a branch of tikz_tree handles
Branched ==
    {"BOOL", "PRED", "AND", "OR", "NOT", "IMPLIES", "ALWAYS", "EVENT", "UNTIL"}

\* the text of the node's label, or the exception the branch of its kind
\* raises; a kind no branch handles binds neither text nor children, and the
\* read of children after the branches raises
node_text(node) ==
    IF node.op \notin Branched THEN UnboundLocalError("children")
    ELSE IF node.op \notin DOMAIN node_label THEN KeyError(node.op)
    ELSE CASE node.op = "BOOL" -> Ok(node_label[node.op][node.value])
           [] node.op = "PRED" ->
                LET text == node_label[node.op][1]
                    rel == node_label[node.op][2]
                IN Ok(Format(text, ("{signal}" :> <<node.variable>>)
                                   @@ ("{rop}" :> rel[node.relation])
                                   @@ ("{threshold}" :> Str(node.threshold))))
           [] node.op \in {"AND", "OR", "NOT", "IMPLIES"} ->
                Ok(node_label[node.op])
           [] node.op \in {"ALWAYS", "EVENT", "UNTIL"} ->
                Ok(Format(node_label[node.op],
                          ("{low}" :> Str(node.low)) @@ ("{high}" :> Str(node.high))))

\* nary_operands as it would be if the children were walked last to first
nary_operands_reversed(node) ==
    [i \in 1..Len(node.children) |->
        node.children[Len(node.children) + 1 - i]]

\* binary_operands as it would be if right were rendered before left
binary_operands_swapped(node) == <<node.right, node.left>>

\* the operands of a node whose children the n-ary branch renders
nary_operands(node) == node.children

\* the operands of a node whose children a two-operand branch renders
binary_operands(node) == <<node.left, node.right>>

\* unary_operands as it would be if the operand of a unary node were left out
unary_operands_none(node) == <<>>

\* the operands of a node whose child a one-operand branch renders
unary_operands(node) == <<node.child>>

\* the nodes the branch of node's kind recurses into, in the order it does
operands(node) ==
    CASE node.op \in {"BOOL", "PRED"} -> <<>>
      [] node.op \in {"AND", "OR"} -> nary_operands(node)
      [] node.op \in {"NOT", "ALWAYS", "EVENT"} -> unary_operands(node)
      [] node.op \in {"IMPLIES", "UNTIL"} -> binary_operands(node)
      [] OTHER -> <<>>

\* reindent as it would be if the first line were left as it is and only
\* the lines after it were indented
reindent_first_line_bare(children, depth) ==
    IF children # <<>>
    THEN LET indent == Spaces(indent_size * depth)
             lines == SplitLines(LStrip(children))
         IN Concat([k \in 1..Len(lines) |->
                       IF k = 1 THEN lines[k] ELSE indent \o lines[k]])
    ELSE children

\* children = indent.join(('\n' + children.lstrip()).splitlines(True))
reindent(children, depth) ==
    IF children # <<>>
    THEN LET indent == Spaces(indent_size * depth)
         IN Join(indent, SplitLines(<<LF>> \o LStrip(children)))
    ELSE children

\* the style of the node's kind, or the exception its lookup raises
node_style(node) ==
    IF node.op \in DOMAIN node_styles THEN Ok(<<node_styles[node.op]>>)
    ELSE KeyError(node.op)

RECURSIVE tikz_tree(_, _)

\* child_blocks as it would be if a child that raises were skipped
child_blocks_skipping_failures(nodes, depth) ==
    LET rs == [i \in 1..Len(nodes) |-> tikz_tree(nodes[i], depth + 1)]
        good == SelectSeq(rs, Returned)
    IN Ok(Join(<<LF>>,
               [i \in 1..Len(good) |->
                   Format(template_child, "{node}" :> good[i].val)]))

\* '\n'.join(template_child.format(node=tikz_tree(ch, depth+1)) for ch in nodes)
child_blocks(nodes, depth) ==
    LET rs == [i \in 1..Len(nodes) |-> tikz_tree(nodes[i], depth + 1)]
    IN IF \E i \in 1..Len(rs) : ~Returned(rs[i]) THEN FirstRaised(rs)
       ELSE Ok(Join(<<LF>>,
                    [i \in 1..Len(rs) |->
                        Format(template_child, "{node}" :> rs[i].val)]))

tikz_tree(node, depth) ==
    LET style == node_style(node)
        text == node_text(node)
        children == child_blocks(operands(node), depth)
    IN IF ~Returned(style) THEN style
       ELSE IF ~Returned(text) THEN text
       ELSE IF ~Returned(children) THEN children
       ELSE Ok(Format(template_node,
                      ("{style}" :> style.val)
                      @@ ("{text}" :> text.val)
                      @@ ("{children}" :> reindent(children.val, depth))))

----------------------------------------------------------------------------
(* ast2latex *)

\* the keys of node_styles in the order the dict literal inserts them
node_styles_keys ==
    SelectSeq(<<"BOOL", "PRED", "AND", "OR", "IMPLIES", "NOT", "ALWAYS", "EVENT", "UNTIL">>,
              LAMBDA op : op \in DOMAIN node_styles)

\* registry_styles as it would be without set(): node_styles.values()
styles_not_deduplicated ==
    [i \in 1..Len(node_styles_keys) |-> node_styles[node_styles_keys[i]]]

\* styles = set(node_styles.values())
registry_styles == SetIter(Range(node_styles))

tikz_node_styles(node_style_options) ==
    LET styles == registry_styles
    IN Format(template_style_block,
              "{node_styles}" :>
                  Join(<<LF>>, [i \in 1..Len(styles) |-> node_style_options[styles[i]]]))

\* tikz_libraries as it would be if a library named twice were declared once
tikz_libraries_deduplicated(libraries) ==
    LET first == {i \in 1..Len(libraries) :
                     \A j \in 1..(i - 1) : libraries[j] # libraries[i]}
        kept == [k \in 1..Cardinality(first) |->
                    libraries[CHOOSE i \in first :
                                  Cardinality({j \in first : j <= i}) = k]]
    IN Join(<<LF>>, [i \in 1..Len(kept) |->
                       Format(template_use_tikz_library, "{lib}" :> <<kept[i]>>)])

\* '\n'.join(template_use_tikz_library.format(lib=lib) for lib in libraries)
tikz_libraries(libraries) ==
    Join(<<LF>>, [i \in 1..Len(libraries) |->
                    Format(template_use_tikz_library, "{lib}" :> <<libraries[i]>>)])

\* the document of the standalone branch
standalone_document(figure, libraries) ==
    Format(template_latex_standalone,
           ("{tikz_libraries}" :> tikz_libraries(libraries))
           @@ ("{tikz_style}" :> tikz_node_styles(default_node_styles))
           @@ ("{figure}" :> figure))

\* document_of as it would be if the standalone flag were not looked at
document_of_ignoring_flag(figure, standalone, libraries) ==
    standalone_document(figure, libraries)

\* the branch on the standalone flag
document_of(figure, standalone, libraries) ==
    IF standalone THEN standalone_document(figure, libraries) ELSE figure

ast2latex(tree_ast, standalone, libraries) ==
    LET tree == tikz_tree(tree_ast, 1)
    IN IF ~Returned(tree) THEN tree
       ELSE LET wrapped == Format(template_tree, "{tree}" :> tree.val)
                figure == Format(template_figure, "{tree}" :> wrapped)
            IN Ok(document_of(figure, standalone, libraries))

----------------------------------------------------------------------------
(* The caller: inputs and calls *)

StyleTags == {"leaf", "intermediate"}

\* the orders in which an interpreter may iterate over a set of style tags
HashOrders ==
    {s \in [1..Cardinality(StyleTags) -> StyleTags] :
        \A i, j \in DOMAIN s : i # j => s[i] # s[j]}

LibraryNames == {"arrows", "shapes"}

Libraries == UNION {[1..n -> LibraryNames] : n \in 0..MaxLibs}

NoCall == [fn |-> "none", depth |-> 0, standalone |-> FALSE, libraries |-> <<>>]
NoResult == [exc |-> "nocall", val |-> <<>>]

\* the trees handed to ast2latex
DocASTs == {a \in ASTs : NodeCount(a) <= MaxDocNodes} \cup Samples

Init ==
    /\ hashseed \in HashOrders
    /\ node_styles = init_node_styles
    /\ node_label = init_node_label
    /\ default_node_styles = init_default_node_styles
    /\ ast \in ASTs
    /\ call = NoCall
    /\ result = NoResult
    /\ this_run = FALSE

\* what the call c on the caller's tree evaluates to
Invoke(c) ==
    IF c.fn = "tikz_tree" THEN tikz_tree(ast, c.depth)
    ELSE ast2latex(ast, c.standalone, c.libraries)

\* Call_tikz_tree as it would be if tikz_tree read the style with
\* node_styles.setdefault(ast.op, 'intermediate')
Call_tikz_tree_setdefault(depth) ==
    /\ call = NoCall
    /\ call' = [fn |-> "tikz_tree", depth |-> depth,
                standalone |-> FALSE, libraries |-> <<>>]
    /\ result' = Invoke(call')
    /\ this_run' = TRUE
    /\ node_styles' = IF ast.op \in DOMAIN node_styles THEN node_styles
                      ELSE node_styles @@ (ast.op :> "intermediate")
    /\ UNCHANGED <<hashseed, node_label, default_node_styles, ast>>

\* the caller calls tikz_tree(ast, depth)
Call_tikz_tree(depth) ==
    /\ call = NoCall
    /\ call' = [fn |-> "tikz_tree", depth |-> depth,
                standalone |-> FALSE, libraries |-> <<>>]
    /\ result' = Invoke(call')
    /\ this_run' = TRUE
    /\ UNCHANGED <<hashseed, node_styles, node_label, default_node_styles, ast>>

\* the caller calls ast2latex(ast, standalone, libraries)
Call_ast2latex(standalone, libraries) ==
    /\ call = NoCall
    /\ ast \in DocASTs
    /\ call' = [fn |-> "ast2latex", depth |-> 1,
                standalone |-> standalone, libraries |-> libraries]
    /\ result' = Invoke(call')
    /\ this_run' = TRUE
    /\ UNCHANGED <<hashseed, node_styles, node_label, default_node_styles, ast>>

\* the caller makes the same call again, on the same tree
Repeat ==
    /\ call # NoCall
    /\ result' = Invoke(call)
    /\ this_run' = TRUE
    /\ UNCHANGED <<hashseed, node_styles, node_label, default_node_styles, ast, call>>

\* the caller drops what the last call gave and is free to make another call
Discard ==
    /\ call # NoCall
    /\ call' = NoCall
    /\ result' = NoResult
    /\ this_run' = FALSE
    /\ UNCHANGED <<hashseed, node_styles, node_label, default_node_styles, ast>>

\* the program is run again: a new interpreter loads the module, which
\* builds the tables anew, and draws a new hash seed; the caller's formula
\* and the output kept from the run before stay
Restart ==
    /\ hashseed' \in HashOrders
    /\ node_styles' = init_node_styles
    /\ node_label' = init_node_label
    /\ default_node_styles' = init_default_node_styles
    /\ this_run' = FALSE
    /\ UNCHANGED <<ast, call, result>>

Next ==
    \/ \E d \in 1..MaxDepth : Call_tikz_tree(d)
    \/ \E sa \in BOOLEAN, libs \in Libraries : Call_ast2latex(sa, libs)
    \/ Repeat
    \/ Discard
    \/ Restart

Spec == Init /\ [][Next]_vars

----------------------------------------------------------------------------
(* Reading a rendered text, for the properties below *)

\* the number of tokens of s equal to tok
Count(s, tok) == Cardinality({i \in 1..Len(s) : s[i] = tok})

\* the place of the first token of s equal to tok, 0 when there is none
IndexOf(s, tok) ==
    LET at == {i \in 1..Len(s) : s[i] = tok}
    IN IF at = {} THEN 0 ELSE CHOOSE i \in at : \A j \in at : i <= j

\* the style tags the node blocks of a text carry
RenderedTags(s) == {s[i + 1] : i \in {j \in 1..(Len(s) - 1) : s[j] = "node ["}}

\* the style block of a standalone document: from \tikzset{ up to \begin{document}
StyleBlock(doc) ==
    SubSeq(doc, IndexOf(doc, "\\tikzset{"), IndexOf(doc, "\\begin{document}") - 1)

\* the fixed definition of a style tag
StyleDefinition(tag) == init_default_node_styles[tag][1]

\* the operand nodes of a tree node, read off its fields
Kids(t) ==
    IF "children" \in DOMAIN t THEN t.children
    ELSE IF "child" \in DOMAIN t THEN <<t.child>>
    ELSE IF "left" \in DOMAIN t THEN <<t.left, t.right>>
    ELSE <<>>

RECURSIVE Nodes(_)
\* the nodes of a tree
Nodes(t) == {t} \cup UNION {Nodes(Kids(t)[i]) : i \in 1..Len(Kids(t))}

\* the last call was ast2latex in standalone mode and it returned
StandaloneReturned ==
    call.fn = "ast2latex" /\ call.standalone /\ Returned(result)

\* the last call was ast2latex in fragment mode and it returned
FragmentReturned ==
    call.fn = "ast2latex" /\ ~call.standalone /\ Returned(result)

\* the last call was tikz_tree and it returned
TreeReturned == call.fn = "tikz_tree" /\ Returned(result)

\* the tokens that open a brace group and the tokens that close one
OpenTokens ==
    {"child {", "] {", "$\\square_{[", "$\\lozenge_{[", "$\\mathcal{U}_{["}
CloseTokens == {"}", "} ", "]}$"}

\* the number of brace groups open before place i of s
BraceDepth(s, i) ==
    Cardinality({j \in 1..(i - 1) : s[j] \in OpenTokens})
        - Cardinality({j \in 1..(i - 1) : s[j] \in CloseTokens})

\* the elements of a set of numbers, in increasing order
Sorted(S) ==
    [k \in 1..Cardinality(S) |->
        CHOOSE i \in S : Cardinality({j \in S : j <= i}) = k]

\* the place where the brace group opened at place i of s closes
GroupEnd(s, i) ==
    CHOOSE j \in (i + 1)..Len(s) :
        /\ s[j] \in CloseTokens
        /\ BraceDepth(s, j + 1) = BraceDepth(s, i)
        /\ \A x \in (i + 1)..(j - 1) : BraceDepth(s, x + 1) > BraceDepth(s, i)

\* the child blocks directly under the node block that the text s is: the
\* brace groups "child { ... }" that no other brace group encloses, in order
TopChildBlocks(s) ==
    LET starts == Sorted({i \in 1..Len(s) : s[i] = "child {" /\ BraceDepth(s, i) = 0})
    IN [k \in 1..Len(starts) |-> SubSeq(s, starts[k], GroupEnd(s, starts[k]))]

\* every line of s after the first starts with n spaces
IndentedBy(s, n) ==
    LET lines == SplitLines(s)
    IN \A k \in 2..Len(lines) :
           Len(lines[k]) >= n /\ \A x \in 1..n : lines[k][x] = SP

\* s with the first n tokens of every line after the first taken away
Dedent(s, n) ==
    LET lines == SplitLines(s)
    IN Concat([k \in 1..Len(lines) |->
                  IF k = 1 THEN lines[k] ELSE SubSeq(lines[k], n + 1, Len(lines[k]))])

\* the child block that wraps the rendering of node at depth
ChildBlockOf(node, depth) ==
    <<"child {", LF>> \o tikz_tree(node, depth).val \o <<LF, "}">>

\* block is ChildBlockOf(node, depth + 1) as it stands under a node rendered
\* at depth
IsBlockOf(block, node, depth) ==
    /\ IndentedBy(block, indent_size * depth)
    /\ Dedent(block, indent_size * depth) = ChildBlockOf(node, depth + 1)

----------------------------------------------------------------------------
(* C1 *)

----------------------------------------------------------------------------
(* C2 *)

\* C2: a call of tikz_tree or ast2latex (standalone or fragment) on a tree
\* that holds, at the root or anywhere below it, a node whose kind has no
\* entry in the tables ends in an exception and returns no string.
C2_UnregisteredKindRaises ==
    (call # NoCall /\ \E n \in Nodes(ast) : n.op \notin DOMAIN node_styles)
        => ~Returned(result)

\* ast2latex raised on a tree whose unregistered node comes after a sibling
\* that was rendered
C2_Witness ==
    /\ call.fn = "ast2latex"
    /\ ast.op = "AND"
    /\ ast.children[1].op \in DOMAIN node_styles
    /\ ast.children[2].op \notin DOMAIN node_styles
    /\ result = KeyError("RELEASE")

----------------------------------------------------------------------------
(* C3 *)

\* C3, as stated: a call made again with the same tree and the same arguments
\* returns what the call before returned, whichever run of the program makes
\* it.
C3_SameCallSameOutput ==
    [][(call # NoCall /\ call' = call /\ ast' = ast) => result' = result]_vars

----------------------------------------------------------------------------
(* C4 *)

\* C4: the text tikz_tree returns for an And or Or node with k children has
\* exactly k child blocks directly under the node, and the i-th of them is
\* the rendering at depth + 1 of the i-th child.
C4_NaryChildBlocksInOrder ==
    (TreeReturned /\ ast.op \in {"AND", "OR"}) =>
        LET blocks == TopChildBlocks(result.val)
        IN /\ Len(blocks) = Len(ast.children)
           /\ \A i \in 1..Len(blocks) :
                  IsBlockOf(blocks[i], ast.children[i], call.depth)

\* tikz_tree returned for an And node of three children that are not all
\* rendered alike
C4_Witness ==
    /\ TreeReturned
    /\ ast.op = "AND"
    /\ Len(ast.children) = 3
    /\ ast.children[1] # ast.children[3]
    /\ Len(TopChildBlocks(result.val)) = 3

----------------------------------------------------------------------------
(* C5 *)

\* the node with left and right exchanged
Swapped(node) == [node EXCEPT !.left = node.right, !.right = node.left]

\* C5: the text tikz_tree returns for an Implies or Until node has exactly two
\* child blocks, the rendering of left and then the rendering of right; and
\* when left and right render to different texts, the node with left and
\* right exchanged renders to a different text.
C5_BinaryLeftThenRight ==
    (TreeReturned /\ ast.op \in {"IMPLIES", "UNTIL"}) =>
        LET blocks == TopChildBlocks(result.val)
        IN /\ Len(blocks) = 2
           /\ IsBlockOf(blocks[1], ast.left, call.depth)
           /\ IsBlockOf(blocks[2], ast.right, call.depth)
           /\ (tikz_tree(ast.left, call.depth + 1) # tikz_tree(ast.right, call.depth + 1)
                  => tikz_tree(Swapped(ast), call.depth) # result)

\* tikz_tree returned for an Until node whose left and right render to
\* different texts
C5_Witness ==
    /\ TreeReturned
    /\ ast.op = "UNTIL"
    /\ tikz_tree(ast.left, call.depth + 1) # tikz_tree(ast.right, call.depth + 1)
    /\ Len(TopChildBlocks(result.val)) = 2

----------------------------------------------------------------------------
(* C6 *)

\* the tokens of the standalone template outside the figure, of a library
\* declaration and of the style block
PreambleTokens ==
    { "\\documentclass{standalone}", "\\usepackage{amsmath}",
      "\\usepackage{amssymb}", "\\usepackage{amsfonts}", "\\usepackage{tikz}",
      "\\usetikzlibrary{", "\\tikzset{",
      "    treenode/.style = {align=center, text centered},",
      "\\begin{document}", "\\end{document}" }
    \cup {StyleDefinition(tag) : tag \in StyleTags}

BeginPicture ==
    "\\begin{tikzpicture}[->,>=stealth',level/.style={sibling distance = 5cm/#1, level distance = 1.5cm}]"
EndPicture == "\\end{tikzpicture}"

\* C6: in fragment mode ast2latex returns the tikzpicture block around the
\* rendered tree and nothing else: no preamble, no library declaration, no
\* style block, and nothing of the libraries argument.
C6_FragmentIsPictureOnly ==
    FragmentReturned =>
        /\ result.val = <<LF, BeginPicture, LF, "\\">> \o tikz_tree(ast, 1).val
                            \o <<LF, ";", LF, LF, EndPicture, LF>>
        /\ \A i \in 1..Len(result.val) :
               result.val[i] \notin PreambleTokens \cup LibraryNames

\* ast2latex returned in fragment mode for a call that named two libraries
C6_Witness ==
    /\ FragmentReturned
    /\ call.libraries = <<"arrows", "shapes">>
    /\ result.val[2] = BeginPicture

----------------------------------------------------------------------------
(* C7 *)

\* C7: a standalone document holds one library declaration line per entry of
\* libraries, the i-th line declaring the i-th entry, all of them after the
\* packages and before the style block and the figure; with no entry it holds
\* no declaration line.
C7_LibraryLinesInOrder ==
    StandaloneReturned =>
        LET doc == result.val
            at == Sorted({i \in 1..Len(doc) : doc[i] = "\\usetikzlibrary{"})
        IN /\ Len(at) = Len(call.libraries)
           /\ \A k \in 1..Len(at) :
                  /\ doc[at[k] - 1] = LF
                  /\ doc[at[k] + 1] = call.libraries[k]
                  /\ doc[at[k] + 2] = "}"
                  /\ doc[at[k] + 3] = LF
                  /\ IndexOf(doc, "\\usepackage{tikz}") < at[k]
                  /\ at[k] < IndexOf(doc, "\\tikzset{")
                  /\ at[k] < IndexOf(doc, "\\begin{document}")
                  /\ at[k] < IndexOf(doc, BeginPicture)
           /\ Count(doc, "\\tikzset{") = 1
           /\ Count(doc, BeginPicture) = 1

\* a standalone document for a call that named the same library twice
C7_Witness ==
    /\ StandaloneReturned
    /\ Len(call.libraries) = 2
    /\ call.libraries[1] = call.libraries[2]
    /\ Count(result.val, "\\usetikzlibrary{") = 2

----------------------------------------------------------------------------
(* C8 *)

\* the display symbol the claim gives a relation
ClaimedSymbol(rel) ==
    CASE rel = "LT" -> "<"
      [] rel = "LE" -> "\\leq"
      [] rel = "GT" -> ">"
      [] rel = "GE" -> "\\geq"
      [] rel = "EQ" -> "="
      [] rel = "NQ" -> "\\neq"

\* the label the claim gives a leaf
ClaimedLabel(node) ==
    IF node.op = "BOOL"
    THEN (IF node.value THEN <<"$\\top$">> ELSE <<"$\\bot$">>)
    ELSE <<"$", node.variable, SP, ClaimedSymbol(node.relation), SP,
           ToString(node.threshold), "$">>

\* the label of the node block that the text s is
LabelOf(s) == SubSeq(s, IndexOf(s, "] {") + 1, IndexOf(s, "} ") - 1)

\* C8, as stated: the label of a Bool is the \top or the \bot command in math
\* mode, the label of a Predicate is "$<variable> <symbol> <threshold>$" with
\* the symbol <, \leq, >, \geq, = or \neq of its relation, and no label holds
\* a tab, a backspace or a line break.
C8_LeafLabelsAreTheMathText ==
    (TreeReturned /\ ast.op \in {"BOOL", "PRED"}) =>
        /\ LabelOf(result.val) = ClaimedLabel(ast)
        /\ \A i \in 1..Len(result.val) : result.val[i] \notin {TAB, BS, LF}

----------------------------------------------------------------------------
(* C9 *)

\* the joined child-block text of a node rendered at depth, before the
\* indentation step: the child blocks of its operands rendered at depth + 1
JoinedChildText(node, depth) ==
    Join(<<LF>>, [i \in 1..Len(Kids(node)) |-> ChildBlockOf(Kids(node)[i], depth + 1)])

\* what follows the head "node [style] {text} " in the node block s
ChildrenPart(s) == SubSeq(s, IndexOf(s, "} ") + 1, Len(s))

\* the rendered tree inside a document of ast2latex: what stands between the
\* backslash of template_tree and the line of its semicolon
TreePart(doc) == SubSeq(doc, IndexOf(doc, "\\") + 1, IndexOf(doc, ";") - 2)

\* the node block the last call rendered for the root, and the depth it
\* rendered it at
RootBlock == IF call.fn = "tikz_tree" THEN result.val ELSE TreePart(result.val)
RootDepth == IF call.fn = "tikz_tree" THEN call.depth ELSE 1

\* C9, as stated: every line of the joined child-block text but the first is
\* prefixed with 4 * depth spaces, the first line is not; a node without
\* child block has no children text.
C9_AllLinesButFirstIndented ==
    (call # NoCall /\ Returned(result)) =>
        LET text == JoinedChildText(ast, RootDepth)
            lines == SplitLines(text)
            indent == Spaces(indent_size * RootDepth)
        IN ChildrenPart(RootBlock)
             = Concat([k \in 1..Len(lines) |->
                          IF k = 1 THEN lines[k] ELSE indent \o lines[k]])

\* C9, amended: when the node has at least one child block, a line break is
\* put before the joined child-block text and every line of that text, the
\* first included, is prefixed with 4 * depth spaces; when it has none, the
\* children text stays empty. The root is rendered at depth 1 by ast2latex,
\* and each child at depth + 1.
C9_EveryLineIndented ==
    (call # NoCall /\ Returned(result)) =>
        LET text == JoinedChildText(ast, RootDepth)
            lines == SplitLines(text)
            indent == Spaces(indent_size * RootDepth)
        IN ChildrenPart(RootBlock)
             = IF text = <<>> THEN <<>>
               ELSE <<LF>> \o Concat([k \in 1..Len(lines) |-> indent \o lines[k]])

\* tikz_tree returned at depth 2 for a node with a child: the children text
\* starts with a line break and eight spaces before the first "child {"
C9_Witness ==
    /\ TreeReturned
    /\ call.depth = 2
    /\ Kids(ast) # <<>>
    /\ SubSeq(ChildrenPart(result.val), 1, 10)
           = <<LF>> \o Spaces(8) \o <<"child {">>

----------------------------------------------------------------------------
(* C10 *)

\* C10: no step of a run changes the caller's tree or an entry of node_styles,
\* node_label or default_node_styles, whether the call returns or raises; and
\* the same call made again in the same run gives what it gave before.
C10_CallsLeaveTreeAndTables ==
    [][/\ ast' = ast
       /\ node_styles' = node_styles
       /\ node_label' = node_label
       /\ default_node_styles' = default_node_styles
       /\ (this_run /\ this_run' /\ call' = call) => result' = result]_vars

\* a call that raised for the unregistered kind was made again and raised
\* again, the tables being those of the import
C10_Witness ==
    /\ this_run
    /\ result = KeyError("RELEASE")
    /\ ast.op = "RELEASE"
    /\ node_styles = init_node_styles
    /\ node_label = init_node_label
    /\ default_node_styles = init_default_node_styles

----------------------------------------------------------------------------
(* C11 *)

\* every node of the tree is of a kind the tables register
WellFormed(t) == \A n \in Nodes(t) : n.op \in DOMAIN node_styles

\* the text the child wrapper block encloses, block standing where its lines
\* after the first are indented by ind spaces: what stands between "child {"
\* with its line break and indentation, and the last line of block
Enclosed(block, ind) == SubSeq(block, 3 + ind, Len(block) - ind - 2)

\* block is a child wrapper whose lines after the first are indented by ind
\* spaces: "child {" and a line break, then indented lines, the last of them
\* the closing brace alone
IsWrapper(block, ind) ==
    /\ Len(block) >= 2 * ind + 5
    /\ block[1] = "child {" /\ block[2] = LF
    /\ block[Len(block)] = "}" /\ block[Len(block) - ind - 1] = LF
    /\ \A q \in 1..(Len(block) - 1) :
           block[q] = LF => \A x \in 1..ind : block[q + x] = SP

\* the brace groups "child { ... }" of the text s that no other brace group
\* encloses, in order, each as the places of its first and of its last token
ChildGroups(s) ==
    LET opens == {j \in 1..Len(s) : s[j] \in OpenTokens}
        closes == {j \in 1..Len(s) : s[j] \in CloseTokens}
        Level(i) == Cardinality({j \in opens : j < i})
                        - Cardinality({j \in closes : j < i})
        starts == Sorted({i \in opens : s[i] = "child {" /\ Level(i) = 0})
        ends == {j \in closes : Level(j + 1) = 0}
        End(i) == CHOOSE j \in ends : j > i /\ \A x \in ends : x > i => j <= x
    IN [k \in 1..Len(starts) |-> <<starts[k], End(starts[k])>>]

RECURSIVE Mirrors(_, _, _, _)
\* the text s is the node block of the tree t rendered at depth, standing
\* where the nodes above t have indented its lines after the first by ind
\* spaces: it opens with "node [", the style tag of t's kind and the label of
\* t; a block tagged leaf has no child wrapper and a block tagged
\* intermediate has at least one; it has one child wrapper per operand of t
\* and nothing but white space around them; and the i-th wrapper, its lines
\* indented by 4 * depth spaces more, encloses just the node block of the
\* i-th operand
Mirrors(s, t, depth, ind) ==
    LET groups == ChildGroups(s)
        kids == Kids(t)
        below == ind + indent_size * depth
    IN /\ Len(s) >= 5
       /\ s[1] = "node [" /\ s[2] = node_styles[t.op] /\ s[3] = "] {"
       /\ Dedent(LabelOf(s), ind) = node_text(t).val
       /\ s[2] = "leaf" => Len(groups) = 0
       /\ s[2] = "intermediate" => Len(groups) >= 1
       /\ Len(groups) = Len(kids)
       /\ \A p \in (IndexOf(s, "} ") + 1)..Len(s) :
              \/ IsSpace(s[p])
              \/ \E k \in 1..Len(groups) : groups[k][1] <= p /\ p <= groups[k][2]
       /\ \A k \in 1..Len(groups) :
              LET block == SubSeq(s, groups[k][1], groups[k][2])
              IN /\ IsWrapper(block, below)
                 /\ Mirrors(Enclosed(block, below), kids[k], depth + 1, below)

\* C11: for a tree of n nodes whose kinds are all registered, tikz_tree
\* returns a text with exactly n node blocks and exactly n - 1 child wrappers;
\* the text mirrors the tree: each node has its node block with its own style
\* tag and label, each child wrapper encloses exactly the node block of one
\* operand and stands inside the node block of that operand's parent, a block
\* tagged leaf has no child wrapper and a block tagged intermediate has at
\* least one.
C11_TextMirrorsTree ==
    (call.fn = "tikz_tree" /\ WellFormed(ast)) =>
        /\ Returned(result)
        /\ Count(result.val, "node [") = NodeCount(ast)
        /\ Count(result.val, "child {") = NodeCount(ast) - 1
        /\ Mirrors(result.val, ast, call.depth, 0)

\* tikz_tree returned for the And of a Not, an Eventually and an Always over
\* predicates: seven node blocks, six child wrappers, three of them directly
\* under the root
C11_Witness ==
    /\ TreeReturned
    /\ ast.op = "AND"
    /\ NodeCount(ast) = 7
    /\ Count(result.val, "node [") = 7
    /\ Count(result.val, "child {") = 6
    /\ Len(TopChildBlocks(result.val)) = 3

====
